---- MODULE Spec2Model ----
(***************************************************************************)
(* Model of conversor.py: conversion of a DSpace CSV export into a         *)
(* Zotero/EndNote-style XML document.                                      *)
(*                                                                         *)
(* Text is modelled as a sequence of one-character strings, so that the    *)
(* string operations of the program (strip, replace, re.search, re.split,  *)
(* re.sub) are computed character by character as the code computes them.  *)
(*                                                                         *)
(* Three specifications share the operators below:                         *)
(*   Spec      - a run of main() over a DataFrame of a few rows;           *)
(*   RowSpec   - the body of the row loop for one row, one mapping entry   *)
(*               at a time;                                                *)
(*   NormSpec  - one cell put through clean_and_format_value and through   *)
(*               the body of the mapping loop, for many raw strings.       *)
(***************************************************************************)
EXTENDS Integers, Sequences, FiniteSets, TLC

\* ------------------------------------------------------------------ bounds
\* Spec: rows of a DataFrame and columns of its header.
MaxRows == 2
MaxHeader == 1
\* RowSpec: columns of the row.
MaxCols == 2
\* NormSpec: fragments of a raw string.
MaxFrags == 4

\* --------------------------------------------------------- character sets
\* str.strip() with no argument and \s in a str pattern: ASCII whitespace.
Whitespace == {" ", "\n", "\r", "\t"}

\* \d in a str pattern (ASCII part).
Digits == {"0", "1", "2", "3", "4", "5", "6", "7", "8", "9"}

\* [a-f0-9-]
HexChars == {"a", "b", "c", "d", "e", "f", "-"} \cup Digits

\* ------------------------------------------------------- string primitives
AllIn(s, i, j, S) == \A k \in i..j : s[k] \in S

\* str.strip(): drop the leading and the trailing run of whitespace.
strip(s) ==
    LET nonws == {i \in 1..Len(s) : s[i] \notin Whitespace}
    IN  IF nonws = {} THEN <<>>
        ELSE LET lo == CHOOSE i \in nonws : \A j \in nonws : i <= j
                 hi == CHOOSE i \in nonws : \A j \in nonws : j <= i
             IN  SubSeq(s, lo, hi)

\* str.replace('\r\n', ' '): left to right, non-overlapping.
RECURSIVE replace_crlf(_)
replace_crlf(s) ==
    IF s = <<>> THEN <<>>
    ELSE IF Len(s) >= 2 /\ s[1] = "\r" /\ s[2] = "\n"
         THEN <<" ">> \o replace_crlf(SubSeq(s, 3, Len(s)))
         ELSE <<s[1]>> \o replace_crlf(Tail(s))

\* str.replace('\n', ' ')
replace_lf(s) == [i \in 1..Len(s) |-> IF s[i] = "\n" THEN " " ELSE s[i]]

\* str.replace('"', '')
IsNotQuote(c) == c # "\""
remove_quotes(s) == SelectSeq(s, IsNotQuote)

\* The general cleanup of clean_and_format_value (lines 48-51).
general_cleanup(s) == remove_quotes(replace_lf(replace_crlf(strip(s))))

\* '$' without re.MULTILINE: the end of the string, or just before a final
\* newline.  EndPositions(s) are the indices e such that '$' matches when
\* the characters s[1..e-1] have been consumed.
EndPositions(s) ==
    {Len(s) + 1} \cup (IF Len(s) >= 1 /\ s[Len(s)] = "\n" THEN {Len(s)} ELSE {})

\* ::[a-f0-9-]+::\d+$ matched from position p, ending at e.
BareSuffixMatch(s, p, e) ==
    /\ p >= 1
    /\ e \in EndPositions(s)
    /\ \E d \in (p + 3)..(e - 3) :
          /\ s[p] = ":" /\ s[p + 1] = ":"
          /\ AllIn(s, p + 2, d - 1, HexChars)
          /\ s[d] = ":" /\ s[d + 1] = ":"
          /\ AllIn(s, d + 2, e - 1, Digits)

\* \s*\(.*?\)\s*::[a-f0-9-]+::\d+$ matched from position p, ending at e.
\* '.' matches any character but a newline.
InstitutionSuffixMatch(s, p, e) ==
    /\ p >= 1
    /\ \E a \in p..Len(s) : \E b \in (a + 1)..Len(s) : \E c \in (b + 1)..Len(s) :
          /\ AllIn(s, p, a - 1, Whitespace)
          /\ s[a] = "("
          /\ \A k \in (a + 1)..(b - 1) : s[k] # "\n"
          /\ s[b] = ")"
          /\ AllIn(s, b + 1, c - 1, Whitespace)
          /\ BareSuffixMatch(s, c, e)

\* re.sub(pattern, '', s) for a pattern anchored by '$': the leftmost match
\* is removed; nothing after it can match again.
sub_institution(s) ==
    LET starts == {p \in 1..Len(s) : \E e \in EndPositions(s) : InstitutionSuffixMatch(s, p, e)}
    IN  IF starts = {} THEN s
        ELSE LET p == CHOOSE q \in starts : \A r \in starts : q <= r
                 e == CHOOSE f \in EndPositions(s) : InstitutionSuffixMatch(s, p, f)
             IN  SubSeq(s, 1, p - 1) \o SubSeq(s, e, Len(s))

sub_bare(s) ==
    LET starts == {p \in 1..Len(s) : \E e \in EndPositions(s) : BareSuffixMatch(s, p, e)}
    IN  IF starts = {} THEN s
        ELSE LET p == CHOOSE q \in starts : \A r \in starts : q <= r
                 e == CHOOSE f \in EndPositions(s) : BareSuffixMatch(s, p, f)
             IN  SubSeq(s, 1, p - 1) \o SubSeq(s, e, Len(s))

\* clean_author (lines 34-42), for a string argument: both substitutions
\* are applied one after the other, then the result is stripped.
clean_author(author_string) == strip(sub_bare(sub_institution(author_string)))

\* Faulty variant: the pattern without its '^' anchor, which finds the first
\* four digits anywhere in the string.
search_year_unanchored(s) ==
    LET hits == {p \in 1..(Len(s) - 3) : AllIn(s, p, p + 3, Digits)}
    IN  IF hits = {} THEN <<>>
        ELSE LET p == CHOOSE q \in hits : \A r \in hits : q <= r
             IN  SubSeq(s, p, p + 3)

\* re.search(r'^\d{4}', s): group(0) of the match, <<>> when there is none.
search_year(s) ==
    IF Len(s) >= 4 /\ AllIn(s, 1, 4, Digits) THEN SubSeq(s, 1, 4) ELSE <<>>

\* re.split(r'[\|]{2,}|;', s): scan left to right; a ';' or a maximal run of
\* at least two '|' is a delimiter, the text between delimiters is a piece.
RECURSIVE PipeRun(_, _)
PipeRun(s, i) == IF i <= Len(s) /\ s[i] = "|" THEN 1 + PipeRun(s, i + 1) ELSE 0

RECURSIVE split_from(_, _, _)
split_from(s, i, piece) ==
    IF i > Len(s) THEN <<piece>>
    ELSE IF s[i] = ";" THEN <<piece>> \o split_from(s, i + 1, <<>>)
    ELSE IF PipeRun(s, i) >= 2 THEN <<piece>> \o split_from(s, i + PipeRun(s, i), <<>>)
    ELSE split_from(s, i + 1, Append(piece, s[i]))

split_keywords(s) == split_from(s, 1, <<>>)

\* Faulty variant: the comprehension without its filter, which keeps the
\* empty pieces.
strip_pieces_unfiltered(pieces) == [i \in 1..Len(pieces) |-> strip(pieces[i])]

\* [k.strip() for k in pieces if k.strip()]
IsNonBlank(k) == strip(k) # <<>>
strip_pieces(pieces) ==
    LET kept == SelectSeq(pieces, IsNonBlank)
    IN  [i \in 1..Len(kept) |-> strip(kept[i])]

\* Faulty variant of the mapping table: the two keyword columns and the two
\* title columns declared in the other order.
csv_to_xml_mapping_reordered == <<
    <<"dc.contributor.author[]",         "contributors/authors/author">>,
    <<"dc.contributor.author",           "contributors/authors/author">>,
    <<"dc.title",                        "titles/title">>,
    <<"dc.title[en_US]",                 "titles/title">>,
    <<"dc.date.issued[]",                "dates/year">>,
    <<"dc.date.issued",                  "dates/year">>,
    <<"dc.publisher[en_US]",             "publisher">>,
    <<"dc.publisher",                    "publisher">>,
    <<"dc.description.abstract[en_US]",  "abstract">>,
    <<"dc.description.abstract",         "abstract">>,
    <<"dc.subject.other[en_US]",         "keywords/keyword">>,
    <<"dc.subject[en_US]",               "keywords/keyword">>,
    <<"dc.identifier.uri[]",             "urls/web-urls/url">>,
    <<"dc.identifier.uri",               "urls/web-urls/url">>,
    <<"dc.language.iso[en_US]",          "language">> >>

\* ------------------------------------------------------- the mapping table
\* csv_to_xml_mapping (lines 16-32): a dict, iterated in insertion order.
csv_to_xml_mapping == <<
    <<"dc.contributor.author[]",         "contributors/authors/author">>,
    <<"dc.contributor.author",           "contributors/authors/author">>,
    <<"dc.title[en_US]",                 "titles/title">>,
    <<"dc.title",                        "titles/title">>,
    <<"dc.date.issued[]",                "dates/year">>,
    <<"dc.date.issued",                  "dates/year">>,
    <<"dc.publisher[en_US]",             "publisher">>,
    <<"dc.publisher",                    "publisher">>,
    <<"dc.description.abstract[en_US]",  "abstract">>,
    <<"dc.description.abstract",         "abstract">>,
    <<"dc.subject[en_US]",               "keywords/keyword">>,
    <<"dc.subject.other[en_US]",         "keywords/keyword">>,
    <<"dc.identifier.uri[]",             "urls/web-urls/url">>,
    <<"dc.identifier.uri",               "urls/web-urls/url">>,
    <<"dc.language.iso[en_US]",          "language">> >>

MappedColumns == {csv_to_xml_mapping[i][1] : i \in 1..Len(csv_to_xml_mapping)}
XmlPaths == {csv_to_xml_mapping[i][2] : i \in 1..Len(csv_to_xml_mapping)}

\* xml_path.split('/') for the paths of the table.
path_parts(xml_path) ==
    CASE xml_path = "contributors/authors/author" -> <<"contributors", "authors", "author">>
      [] xml_path = "titles/title"                -> <<"titles", "title">>
      [] xml_path = "dates/year"                  -> <<"dates", "year">>
      [] xml_path = "keywords/keyword"            -> <<"keywords", "keyword">>
      [] xml_path = "urls/web-urls/url"           -> <<"urls", "web-urls", "url">>
      [] OTHER                                    -> <<xml_path>>

\* ------------------------------------------------------------------- cells
\* A cell of the DataFrame: missing (NaN), or a string.  str(value) of a
\* string is the string itself.
NaN == [na |-> TRUE, v |-> <<>>]
StrCell(s) == [na |-> FALSE, v |-> s]

\* The value returned by clean_and_format_value: a str or a list of str.
StrValue(s) == [kind |-> "str", s |-> s, items |-> <<>>]
ListValue(l) == [kind |-> "list", s |-> <<>>, items |-> l]

\* Faulty variant: every cleaned value counts as present.
Truthy_always(cv) == TRUE

\* Python truthiness of such a value: non-empty string, non-empty list.
Truthy(cv) == IF cv.kind = "list" THEN cv.items # <<>> ELSE cv.s # <<>>

\* clean_and_format_value (lines 44-67).
clean_and_format_value(value, xml_tag) ==
    IF value.na THEN StrValue(<<>>)
    ELSE LET value_str == general_cleanup(value.v)
         IN  IF xml_tag = "dates/year" THEN StrValue(search_year(value_str))
             ELSE IF xml_tag = "keywords/keyword"
                  THEN ListValue(strip_pieces(split_keywords(value_str)))
             ELSE IF xml_tag = "contributors/authors/author"
                  THEN StrValue(clean_author(value_str))
             ELSE StrValue(value_str)

\* ---------------------------------------------------------------- elements
\* An ElementTree element: tag, the 'name' attribute ("" when it has none),
\* its text (hasText is FALSE for text None) and its children in order.
Element(tag, name) ==
    [tag |-> tag, name |-> name, hasText |-> FALSE, text |-> <<>>, kids |-> <<>>]

WithText(el, text) == [el EXCEPT !.hasText = TRUE, !.text = text]

\* SubElement(parent, ...): the new element is appended to the children.
SubElement(parent, child) == [parent EXCEPT !.kids = Append(@, child)]

\* Faulty variant: the lookup that never finds the container, so that every
\* mapping entry creates its own.
find_nothing(el, tag) == 0

\* Element.find(tag): index of the first direct child with that tag, 0 for None.
find(el, tag) ==
    LET hits == {i \in 1..Len(el.kids) : el.kids[i].tag = tag}
    IN  IF hits = {} THEN 0 ELSE CHOOSE i \in hits : \A j \in hits : i <= j

\* Lines 110-115 / 122-127 followed by lines 116-117 / 128: walk the container
\* parts from current_element, creating what find() does not return, then
\* append one leaf per item to the last container.
RECURSIVE attach(_, _, _)
attach(current_element, parts, items) ==
    IF Len(parts) = 1
    THEN [current_element EXCEPT !.kids =
              @ \o [i \in 1..Len(items) |-> WithText(Element(parts[1], ""), items[i])]]
    ELSE LET found_element == find(current_element, parts[1])
         IN  IF found_element = 0
             THEN SubElement(current_element,
                             attach(Element(parts[1], ""), Tail(parts), items))
             ELSE [current_element EXCEPT !.kids[found_element] =
                       attach(@, Tail(parts), items)]

\* Faulty variant: the cleaned value is attached without the test of line
\* 105.
attach_value_unguarded(record, xml_path, cleaned_value) ==
    IF cleaned_value.kind = "list"
    THEN attach(record, path_parts(xml_path), cleaned_value.items)
    ELSE attach(record, path_parts(xml_path), <<cleaned_value.s>>)

\* Lines 105-128: a falsy cleaned value attaches nothing; a list attaches one
\* leaf per item, a string one leaf.
attach_value(record, xml_path, cleaned_value) ==
    IF ~Truthy(cleaned_value) THEN record
    ELSE IF cleaned_value.kind = "list"
         THEN attach(record, path_parts(xml_path), cleaned_value.items)
         ELSE attach(record, path_parts(xml_path), <<cleaned_value.s>>)

\* Lines 101-103: the guard of one mapping entry.
HasValue(row, csv_col) == csv_col \in DOMAIN row /\ ~row[csv_col].na

\* Lines 100-128 for one mapping entry.
apply_entry(record, row, entry) ==
    IF HasValue(row, entry[1])
    THEN attach_value(record, entry[2], clean_and_format_value(row[entry[1]], entry[2]))
    ELSE record

\* The texts of the fixed children (lines 94-97).
MyLibrary == <<"M", "y", "L", "i", "b", "r", "a", "r", "y">>
Zotero == <<"Z", "o", "t", "e", "r", "o">>
ThesisCode == <<"3", "2">>

\* Lines 91-97: the new record with its three fixed children.
new_record ==
    SubElement(SubElement(SubElement(Element("record", ""),
        WithText(Element("database", "MyLibrary"), MyLibrary)),
        WithText(Element("source-app", "Zotero"), Zotero)),
        WithText(Element("ref-type", "Thesis"), ThesisCode))

\* Lines 91-128: the body of the row loop; the mapping entries 1..n are
\* applied in the order of the table.
RECURSIVE apply_entries(_, _, _)
apply_entries(record, row, n) ==
    IF n = 0 THEN record
    ELSE apply_entry(apply_entries(record, row, n - 1), row, csv_to_xml_mapping[n])

build_record(row) == apply_entries(new_record, row, Len(csv_to_xml_mapping))

\* ------------------------------------------------------------ serializing
\* tostring / toprettyxml (lines 134-135), as the sequence of markup tokens
\* of the document: start tag, text, children, end tag.
Token(t, el) ==
    [t |-> t, tag |-> el.tag, name |-> el.name,
     text |-> IF t = "text" THEN el.text ELSE <<>>]

RECURSIVE serialize(_)
RECURSIVE serialize_all(_)
serialize(el) ==
    <<Token("start", el)>>
    \o (IF el.hasText THEN <<Token("text", el)>> ELSE <<>>)
    \o serialize_all(el.kids)
    \o <<Token("end", el)>>
serialize_all(els) ==
    IF els = <<>> THEN <<>> ELSE serialize(Head(els)) \o serialize_all(Tail(els))

\* ------------------------------------------------------------------ inputs
\* The cells of the rows of Spec and RowSpec: missing; a value that is a
\* year, a keyword list and a plain text at once ("1999;k"); a value that is
\* no year but two keywords ("j||k"); and a blank value.
RichValue == <<"1", "9", "9", "9", ";", "k">>
UndatedValue == <<"j", "|", "|", "k">>
BlankValue == <<" ">>
CellValues == {NaN, StrCell(RichValue), StrCell(UndatedValue), StrCell(BlankValue)}

\* pandas gives every row the columns of the header; the header is any n of
\* the mapped columns (other columns are never looked at).
ColumnSets(n) == {S \in SUBSET MappedColumns : Cardinality(S) <= n}

\* The DataFrames of Spec hold two of these cells.
FrameCellValues == {NaN, StrCell(RichValue)}

\* d is a DataFrame of Spec: a header and up to MaxRows rows over it.
IsDataFrame(d) ==
    \E S \in ColumnSets(MaxHeader) : \E n \in 0..MaxRows :
        \E r \in [1..n -> [S -> FrameCellValues]] : d = [columns |-> S, rows |-> r]

\* The raw strings of NormSpec are made of up to MaxFrags fragments, chosen
\* per path so that every construct of the rule of that path can be formed.
Fragments(xml_path) ==
    CASE xml_path = "contributors/authors/author" ->
             {<<"x">>, <<" ">>, <<"\"">>, <<"(">>, <<")">>, <<":">>, <<"1">>,
              <<":", ":", "a", ":", ":", "1">>}
      [] xml_path = "dates/year" ->
             {<<"2", "0", "2">>, <<"0">>, <<"-">>, <<"x">>, <<" ">>, <<"\"">>}
      [] xml_path = "keywords/keyword" ->
             {<<"k">>, <<"j">>, <<"|">>, <<"|", "|">>, <<";">>, <<" ">>, <<"\"">>}
      [] OTHER ->
             {<<"x">>, <<" ">>, <<"\"">>, <<"\n">>, <<"\r">>}

RECURSIVE Flatten(_)
Flatten(ss) == IF ss = <<>> THEN <<>> ELSE Head(ss) \o Flatten(Tail(ss))

\* ------------------------------------------------------------------- state
VARIABLES
    pc,                 \* position in main()
    df,                 \* the DataFrame read from the CSV file
    records,            \* the <records> element
    index,              \* number of rows the loop has gone through
    pretty_xml_string,  \* the serialized document
    outfile,            \* the output file
    r_pc,               \* RowSpec: position in the body of the row loop
    r_row,              \* RowSpec: the row
    r_record,           \* RowSpec: the <record> element being built
    r_entry,            \* RowSpec: number of mapping entries gone through
    n_pc,               \* NormSpec: position
    n_path,             \* NormSpec: the xml path of the cell
    n_cell,             \* NormSpec: the raw cell
    n_cleaned,          \* NormSpec: the result of clean_and_format_value
    n_record            \* NormSpec: the record after the mapping entry

main_vars == <<pc, df, records, index, pretty_xml_string, outfile>>
row_vars == <<r_pc, r_row, r_record, r_entry>>
norm_vars == <<n_pc, n_path, n_cell, n_cleaned, n_record>>
vars == <<pc, df, records, index, pretty_xml_string, outfile,
          r_pc, r_row, r_record, r_entry,
          n_pc, n_path, n_cell, n_cleaned, n_record>>

NoDataFrame == [columns |-> {}, rows |-> <<>>]
NoElement == Element("", "")

\* The output file: untouched (as it was before the run), or opened for
\* writing and holding the tokens written so far.
Untouched == [state |-> "untouched", content |-> <<>>]

MainIdle ==
    /\ pc = "start"
    /\ df = NoDataFrame
    /\ records = NoElement
    /\ index = 0
    /\ pretty_xml_string = <<>>
    /\ outfile = Untouched

NormIdle ==
    /\ n_pc = "idle"
    /\ n_path = "publisher"
    /\ n_cell = NaN
    /\ n_cleaned = StrValue(<<>>)
    /\ n_record = NoElement

NoRow == [c \in {} |-> NaN]

RowIdle ==
    /\ r_pc = "idle"
    /\ r_row = NoRow
    /\ r_record = NoElement
    /\ r_entry = 0

Init == MainIdle /\ RowIdle /\ NormIdle

\* ------------------------------------------------------------ main(): steps
\* Line 71: the input file exists.
InputExists ==
    /\ pc = "start"
    /\ pc' = "read"
    /\ UNCHANGED <<df, records, index, pretty_xml_string, outfile>>

\* Lines 71-74: the input file does not exist; main returns.
InputMissing ==
    /\ pc = "start"
    /\ pc' = "aborted"
    /\ UNCHANGED <<df, records, index, pretty_xml_string, outfile>>

\* Lines 76-79: read_csv succeeds.
ReadCsv ==
    /\ pc = "read"
    /\ IsDataFrame(df')
    /\ pc' = "root"
    /\ UNCHANGED <<records, index, pretty_xml_string, outfile>>

\* Lines 81-83: read_csv raises; main returns.
ReadCsvFails ==
    /\ pc = "read"
    /\ pc' = "aborted"
    /\ UNCHANGED <<df, records, index, pretty_xml_string, outfile>>

\* Lines 86-87: the root and its <records> child.
CreateRoot ==
    /\ pc = "root"
    /\ records' = Element("records", "")
    /\ index' = 0
    /\ pc' = "loop"
    /\ UNCHANGED <<df, pretty_xml_string, outfile>>

\* Faulty variant of the row loop: a row that gives none of the mapped
\* fields is skipped instead of giving a record.
ProcessRow_skipping ==
    /\ pc = "loop"
    /\ index < Len(df.rows)
    /\ records' = IF Len(build_record(df.rows[index + 1]).kids) = Len(new_record.kids)
                  THEN records
                  ELSE SubElement(records, build_record(df.rows[index + 1]))
    /\ index' = index + 1
    /\ UNCHANGED <<pc, df, pretty_xml_string, outfile>>

\* Lines 90-128: one iteration of the row loop.
ProcessRow ==
    /\ pc = "loop"
    /\ index < Len(df.rows)
    /\ records' = SubElement(records, build_record(df.rows[index + 1]))
    /\ index' = index + 1
    /\ UNCHANGED <<pc, df, pretty_xml_string, outfile>>

\* Line 90: iterrows() is exhausted.
EndOfRows ==
    /\ pc = "loop"
    /\ index = Len(df.rows)
    /\ pc' = "serialize"
    /\ UNCHANGED <<df, records, index, pretty_xml_string, outfile>>

\* The root element (line 86) with the <records> element as its only child.
root == SubElement(Element("xml", ""), records)

\* Lines 134-135: the document is serialized in memory.
Serialize ==
    /\ pc = "serialize"
    /\ pretty_xml_string' = serialize(root)
    /\ pc' = "open"
    /\ UNCHANGED <<df, records, index, outfile>>

\* Lines 134-135 raise (line 143); main returns.
SerializeFails ==
    /\ pc = "serialize"
    /\ pc' = "aborted"
    /\ UNCHANGED <<df, records, index, pretty_xml_string, outfile>>

\* Line 137: open(..., "w") creates or truncates the output file.
OpenOutput ==
    /\ pc = "open"
    /\ outfile' = [state |-> "open", content |-> <<>>]
    /\ pc' = "write"
    /\ UNCHANGED <<df, records, index, pretty_xml_string>>

\* Line 137 raises (line 143); main returns.
OpenOutputFails ==
    /\ pc = "open"
    /\ pc' = "aborted"
    /\ UNCHANGED <<df, records, index, pretty_xml_string, outfile>>

\* Lines 138-141: the string is written and the file closed.
WriteOutput ==
    /\ pc = "write"
    /\ outfile' = [state |-> "closed", content |-> pretty_xml_string]
    /\ pc' = "done"
    /\ UNCHANGED <<df, records, index, pretty_xml_string>>

\* Line 138 raises (line 143) after a proper prefix of the string has
\* reached the file: none of it, or all of it but its end.  The
\* with-statement closes the file and main returns.
WriteOutputFails ==
    /\ pc = "write"
    /\ \E n \in {0, Len(pretty_xml_string) - 1} :
          outfile' = [state |-> "closed", content |-> SubSeq(pretty_xml_string, 1, n)]
    /\ pc' = "aborted"
    /\ UNCHANGED <<df, records, index, pretty_xml_string>>

Next ==
    \/ (InputExists /\ UNCHANGED <<row_vars, norm_vars>>)
    \/ (InputMissing /\ UNCHANGED <<row_vars, norm_vars>>)
    \/ (ReadCsv /\ UNCHANGED <<row_vars, norm_vars>>)
    \/ (ReadCsvFails /\ UNCHANGED <<row_vars, norm_vars>>)
    \/ (CreateRoot /\ UNCHANGED <<row_vars, norm_vars>>)
    \/ (ProcessRow /\ UNCHANGED <<row_vars, norm_vars>>)
    \/ (EndOfRows /\ UNCHANGED <<row_vars, norm_vars>>)
    \/ (Serialize /\ UNCHANGED <<row_vars, norm_vars>>)
    \/ (SerializeFails /\ UNCHANGED <<row_vars, norm_vars>>)
    \/ (OpenOutput /\ UNCHANGED <<row_vars, norm_vars>>)
    \/ (OpenOutputFails /\ UNCHANGED <<row_vars, norm_vars>>)
    \/ (WriteOutput /\ UNCHANGED <<row_vars, norm_vars>>)
    \/ (WriteOutputFails /\ UNCHANGED <<row_vars, norm_vars>>)

Spec == Init /\ [][Next]_vars

\* ---------------------------------------------------- RowSpec: one row
RowInit ==
    /\ MainIdle
    /\ NormIdle
    /\ r_pc = "new"
    /\ \E S \in ColumnSets(MaxCols) : r_row \in [S -> CellValues]
    /\ r_record = NoElement
    /\ r_entry = 0

\* Lines 91-97: the record and its three fixed children.
NewRecord ==
    /\ r_pc = "new"
    /\ r_record' = new_record
    /\ r_pc' = "entries"
    /\ UNCHANGED <<r_row, r_entry>>

\* Lines 100-128: the next entry of csv_to_xml_mapping.items().
ApplyEntry ==
    /\ r_pc = "entries"
    /\ r_entry < Len(csv_to_xml_mapping)
    /\ r_record' = apply_entry(r_record, r_row, csv_to_xml_mapping[r_entry + 1])
    /\ r_entry' = r_entry + 1
    /\ UNCHANGED <<r_pc, r_row>>

\* Line 100: the mapping is exhausted; the record is complete.
EndOfEntries ==
    /\ r_pc = "entries"
    /\ r_entry = Len(csv_to_xml_mapping)
    /\ r_pc' = "built"
    /\ UNCHANGED <<r_row, r_record, r_entry>>

RowNext ==
    \/ (NewRecord /\ UNCHANGED <<main_vars, norm_vars>>)
    \/ (ApplyEntry /\ UNCHANGED <<main_vars, norm_vars>>)
    \/ (EndOfEntries /\ UNCHANGED <<main_vars, norm_vars>>)

RowSpec == RowInit /\ [][RowNext]_vars

\* ------------------------------------------------- NormSpec: one cell
NormInit ==
    /\ MainIdle
    /\ RowIdle
    /\ n_pc = "raw"
    /\ n_path \in XmlPaths
    /\ \/ n_cell = NaN
       \/ \E n \in 0..MaxFrags : \E fs \in [1..n -> Fragments(n_path)] :
             n_cell = StrCell(Flatten(fs))
    /\ n_cleaned = StrValue(<<>>)
    /\ n_record = new_record

\* Line 103: cleaned_value = clean_and_format_value(value, xml_path).
Clean ==
    /\ n_pc = "raw"
    /\ n_cleaned' = clean_and_format_value(n_cell, n_path)
    /\ n_pc' = "cleaned"
    /\ UNCHANGED <<n_path, n_cell, n_record>>

\* Lines 101 and 105-128: the cleaned value of a non-missing cell is
\* attached to the record.
AttachCleaned ==
    /\ n_pc = "cleaned"
    /\ n_record' = IF n_cell.na THEN n_record
                   ELSE attach_value(n_record, n_path, n_cleaned)
    /\ n_pc' = "attached"
    /\ UNCHANGED <<n_path, n_cell, n_cleaned>>

NormNext ==
    \/ (Clean /\ UNCHANGED <<main_vars, row_vars>>)
    \/ (AttachCleaned /\ UNCHANGED <<main_vars, row_vars>>)

NormSpec == NormInit /\ [][NormNext]_vars

\* =================================================================== claims
\* ------------------------------------------------- vocabulary of the claims
\* The three fixed children of a record, written out.
FixedChildren == <<
    [tag |-> "database", name |-> "MyLibrary", hasText |-> TRUE,
     text |-> <<"M", "y", "L", "i", "b", "r", "a", "r", "y">>, kids |-> <<>>],
    [tag |-> "source-app", name |-> "Zotero", hasText |-> TRUE,
     text |-> <<"Z", "o", "t", "e", "r", "o">>, kids |-> <<>>],
    [tag |-> "ref-type", name |-> "Thesis", hasText |-> TRUE,
     text |-> <<"3", "2">>, kids |-> <<>>] >>

BareRecord ==
    [tag |-> "record", name |-> "", hasText |-> FALSE, text |-> <<>>,
     kids |-> FixedChildren]

ContainerNames ==
    {"contributors", "authors", "titles", "dates", "keywords", "urls", "web-urls"}

\* The texts, in document order, of the leaves reached from a list of
\* children by following the element names of parts.
RECURSIVE LeavesFrom(_, _)
LeavesFrom(kids, parts) ==
    IF kids = <<>> THEN <<>>
    ELSE (IF Head(kids).tag # parts[1] THEN <<>>
          ELSE IF Len(parts) = 1 THEN <<Head(kids).text>>
          ELSE LeavesFrom(Head(kids).kids, Tail(parts)))
         \o LeavesFrom(Tail(kids), parts)

\* Number of direct children of el named tag.
CountChildren(el, tag) == Cardinality({i \in 1..Len(el.kids) : el.kids[i].tag = tag})

\* No element at or below el has two children with the same container name.
RECURSIVE UniqueContainers(_)
UniqueContainers(el) ==
    /\ \A c \in ContainerNames : CountChildren(el, c) <= 1
    /\ \A i \in 1..Len(el.kids) : UniqueContainers(el.kids[i])

\* No element below el is empty: a leaf has a non-empty text, an element
\* without text has children.
RECURSIVE NoEmptyBelow(_)
NoEmptyBelow(el) ==
    \A i \in 1..Len(el.kids) :
        LET k == el.kids[i]
        IN  /\ IF k.hasText THEN k.text # <<>> ELSE k.kids # <<>>
            /\ NoEmptyBelow(k)

\* The strings a cell of a row contributes under a path: nothing when the
\* column is not in the row or the cell is missing, otherwise the non-empty
\* results of its normalization.
ItemsOf(r, col, path) ==
    IF col \notin DOMAIN r THEN <<>>
    ELSE IF r[col].na THEN <<>>
    ELSE LET cv == clean_and_format_value(r[col], path)
         IN  IF cv.kind = "list" THEN cv.items
             ELSE IF cv.s = <<>> THEN <<>> ELSE <<cv.s>>

\* The record is being built, or is built.
RowStarted == r_pc \in {"entries", "built"}

\* ------------------------------------------------------------------- C1
\* The loop has gone through `index` rows.
LoopReached == pc \in {"loop", "serialize", "open", "write", "done"}
LoopLeft == pc \in {"serialize", "open", "write", "done"}

\* C1: the row loop appends exactly one record per row to the single
\* <records> element: after i rows it has i children, the k-th being the
\* record built from the k-th row, and when the loop is left there are as
\* many records as rows.
C1_OneRecordPerRow ==
    /\ LoopReached =>
          /\ records.tag = "records"
          /\ Len(records.kids) = index
          /\ \A k \in 1..index :
                /\ records.kids[k].tag = "record"
                /\ records.kids[k] = build_record(df.rows[k])
    /\ LoopLeft => Len(records.kids) = Len(df.rows)

\* Two rows, the first with every cell missing, the second with a value,
\* and the run is complete.
C1_Witness ==
    /\ pc = "done"
    /\ Len(df.rows) = 2
    /\ df.columns # {}
    /\ \A c \in df.columns : df.rows[1][c].na /\ df.rows[2][c] = StrCell(RichValue)
    /\ Len(records.kids) = 2
    /\ records.kids[1] = BareRecord
    /\ records.kids[2] # BareRecord

\* ------------------------------------------------------------------- C2
TitleParts == <<"titles", "title">>
BothTitlesPresent ==
    /\ "dc.title[en_US]" \in DOMAIN r_row /\ ~r_row["dc.title[en_US]"].na
    /\ "dc.title" \in DOMAIN r_row /\ ~r_row["dc.title"].na
BothTitlesNonEmpty ==
    /\ ItemsOf(r_row, "dc.title[en_US]", "titles/title") # <<>>
    /\ ItemsOf(r_row, "dc.title", "titles/title") # <<>>
OneTitlesTwoLeaves ==
    /\ CountChildren(r_record, "titles") = 1
    /\ Len(LeavesFrom(r_record.kids, TitleParts)) = 2

\* C2 as stated: container names are unique among siblings after any number
\* of mapping entries, and a row in which both title columns are present
\* gets one 'titles' element with two 'title' leaves.
C2_AsStated ==
    /\ RowStarted => UniqueContainers(r_record)
    /\ (r_pc = "built" /\ BothTitlesPresent) => OneTitlesTwoLeaves

\* C2 (amended): container names are unique among siblings after any number
\* of mapping entries; a row in which both title columns are present and
\* normalize to non-empty strings gets one 'titles' element with two 'title'
\* leaves; and every leaf is appended: under each path there are as many
\* leaves as the columns of that path contribute strings.
C2_ContainersUnique ==
    /\ RowStarted => UniqueContainers(r_record)
    /\ (r_pc = "built" /\ BothTitlesNonEmpty) => OneTitlesTwoLeaves
    /\ r_pc = "built" =>
          /\ Len(LeavesFrom(r_record.kids, <<"contributors", "authors", "author">>))
                = Len(ItemsOf(r_row, "dc.contributor.author[]", "contributors/authors/author"))
                  + Len(ItemsOf(r_row, "dc.contributor.author", "contributors/authors/author"))
          /\ Len(LeavesFrom(r_record.kids, TitleParts))
                = Len(ItemsOf(r_row, "dc.title[en_US]", "titles/title"))
                  + Len(ItemsOf(r_row, "dc.title", "titles/title"))
          /\ Len(LeavesFrom(r_record.kids, <<"keywords", "keyword">>))
                = Len(ItemsOf(r_row, "dc.subject[en_US]", "keywords/keyword"))
                  + Len(ItemsOf(r_row, "dc.subject.other[en_US]", "keywords/keyword"))
          /\ Len(LeavesFrom(r_record.kids, <<"urls", "web-urls", "url">>))
                = Len(ItemsOf(r_row, "dc.identifier.uri[]", "urls/web-urls/url"))
                  + Len(ItemsOf(r_row, "dc.identifier.uri", "urls/web-urls/url"))

\* Both title columns hold the same non-empty text and the record is built:
\* one 'titles' element, two equal 'title' leaves.
C2_Witness ==
    /\ r_pc = "built"
    /\ DOMAIN r_row = {"dc.title[en_US]", "dc.title"}
    /\ r_row["dc.title[en_US]"] = StrCell(RichValue)
    /\ r_row["dc.title"] = StrCell(RichValue)
    /\ CountChildren(r_record, "titles") = 1
    /\ LeavesFrom(r_record.kids, TitleParts) = <<RichValue, RichValue>>

\* ------------------------------------------------------------------- C3
\* The cell of NormSpec is a string on the author path and has been cleaned.
AuthorCleaned ==
    /\ n_pc \in {"cleaned", "attached"}
    /\ n_path = "contributors/authors/author"
    /\ ~n_cell.na

\* s with everything from position p on removed.
Before(s, p) == SubSeq(s, 1, p - 1)

InstitutionStarts(s) == {p \in 1..Len(s) : InstitutionSuffixMatch(s, p, Len(s) + 1)}
BareStarts(s) == {p \in 1..Len(s) : BareSuffixMatch(s, p, Len(s) + 1)}
Leftmost(S) == CHOOSE p \in S : \A q \in S : p <= q

\* One suffix form at most is removed: the institution form when the string
\* ends with it, otherwise the bare form when the string ends with it.
OneSuffixRemoved(s) ==
    IF InstitutionStarts(s) # {} THEN Before(s, Leftmost(InstitutionStarts(s)))
    ELSE IF BareStarts(s) # {} THEN Before(s, Leftmost(BareStarts(s)))
    ELSE s

\* C3: author normalization removes at most one suffix form - the
\* institution form if the cleaned string ends with it (the bare pattern is
\* then not applied to what remains), otherwise the bare form, otherwise
\* nothing - and trims the result.
C3_OneSuffixForm ==
    AuthorCleaned =>
        n_cleaned.s = strip(OneSuffixRemoved(general_cleanup(n_cell.v)))

\* ------------------------------------------------------------------- C4
DefaultPaths == {"publisher", "abstract", "titles/title", "language", "urls/web-urls/url"}

IsTrimmed(s) == s = <<>> \/ (s[1] \notin Whitespace /\ s[Len(s)] \notin Whitespace)

\* C4: the text of every leaf emitted for a non-missing value on a default
\* path or on the author path has no leading and no trailing whitespace.
C4_LeafTextTrimmed ==
    (/\ n_pc = "attached"
     /\ ~n_cell.na
     /\ n_path \in DefaultPaths \cup {"contributors/authors/author"}) =>
        LET texts == LeavesFrom(n_record.kids, path_parts(n_path))
        IN  \A j \in 1..Len(texts) : IsTrimmed(texts[j])

\* ------------------------------------------------------------------- C5
YearParts == <<"dates", "year">>

StartsWithFourDigits(s) == Len(s) >= 4 /\ \A i \in 1..4 : s[i] \in Digits

\* C5: on the year path the result is the four digits the cleaned string
\* starts with, whatever follows them; a cleaned string that does not start
\* with four digits gives an absent result and the record gets no 'dates'
\* and no 'year' element.
C5_YearIsLeadingFourDigits ==
    (n_pc \in {"cleaned", "attached"} /\ n_path = "dates/year" /\ ~n_cell.na) =>
        LET s == general_cleanup(n_cell.v)
        IN  /\ n_cleaned.kind = "str"
            /\ StartsWithFourDigits(s) => n_cleaned.s = SubSeq(s, 1, 4)
            /\ ~StartsWithFourDigits(s) => n_cleaned.s = <<>>
            /\ n_pc = "attached" =>
                  IF StartsWithFourDigits(s)
                  THEN /\ Len(n_record.kids) = 4
                       /\ LeavesFrom(n_record.kids, YearParts) = <<SubSeq(s, 1, 4)>>
                  ELSE n_record = BareRecord

\* "2020-0" has given the leaf dates/year "2020".
C5_Witness ==
    /\ n_pc = "attached"
    /\ n_path = "dates/year"
    /\ n_cell = StrCell(<<"2", "0", "2", "0", "-", "0">>)
    /\ LeavesFrom(n_record.kids, YearParts) = <<(<<"2", "0", "2", "0">>)>>

\* ------------------------------------------------------------------- C6
KeywordParts == <<"keywords", "keyword">>

\* Position i of s belongs to a delimiter: a semicolon, or a pipe with a
\* pipe next to it.
IsDelimiter(s, i) ==
    \/ s[i] = ";"
    \/ /\ s[i] = "|"
       /\ \/ (i > 1 /\ s[i - 1] = "|")
          \/ (i < Len(s) /\ s[i + 1] = "|")

\* The maximal delimiter-free stretches of s, as pairs <<first, last>>.
Stretches(s) ==
    {<<a, b>> \in (1..Len(s)) \X (1..Len(s)) :
        /\ a <= b
        /\ \A i \in a..b : ~IsDelimiter(s, i)
        /\ (a = 1 \/ IsDelimiter(s, a - 1))
        /\ (b = Len(s) \/ IsDelimiter(s, b + 1))}

\* They are disjoint: in the order of their first positions.
RECURSIVE InOrder(_)
InOrder(S) ==
    IF S = {} THEN <<>>
    ELSE LET first == CHOOSE x \in S : \A y \in S : x[1] <= y[1]
         IN  <<first>> \o InOrder(S \ {first})

\* The keywords of s: each stretch trimmed, the blank ones dropped.
RECURSIVE TrimmedNonBlank(_, _)
TrimmedNonBlank(s, stretches) ==
    IF stretches = <<>> THEN <<>>
    ELSE LET piece == SubSeq(s, Head(stretches)[1], Head(stretches)[2])
             trimmed == strip(piece)
         IN  (IF trimmed = <<>> THEN <<>> ELSE <<trimmed>>)
             \o TrimmedNonBlank(s, Tail(stretches))

KeywordsOf(s) == TrimmedNonBlank(s, InOrder(Stretches(s)))

\* C6: on the keyword path the result is the sequence of the pieces between
\* runs of two or more pipes and semicolons (a single pipe separates
\* nothing), each trimmed, the empty ones dropped, order and duplicates
\* kept; and each piece becomes one 'keyword' leaf, in that order.
C6_KeywordsSplit ==
    (n_pc \in {"cleaned", "attached"} /\ n_path = "keywords/keyword" /\ ~n_cell.na) =>
        LET expected == KeywordsOf(general_cleanup(n_cell.v))
        IN  /\ n_cleaned.kind = "list"
            /\ n_cleaned.items = expected
            /\ n_pc = "attached" =>
                  /\ LeavesFrom(n_record.kids, KeywordParts) = expected
                  /\ IF expected = <<>> THEN n_record = BareRecord
                     ELSE /\ Len(n_record.kids) = 4
                          /\ Len(n_record.kids[4].kids) = Len(expected)

\* "k||;j" has given the leaves k and j.
C6_Witness ==
    /\ n_pc = "attached"
    /\ n_path = "keywords/keyword"
    /\ n_cell = StrCell(<<"k", "|", "|", ";", "j">>)
    /\ LeavesFrom(n_record.kids, KeywordParts) = <<(<<"k">>), <<"j">> >>

\* ------------------------------------------------------------------- C7
\* The cell of r under col is not in the row, is missing, or normalizes to
\* the empty string or the empty sequence.
GivesNothing(r, col, path) ==
    \/ col \notin DOMAIN r
    \/ r[col].na
    \/ LET cv == clean_and_format_value(r[col], path)
       IN  cv.s = <<>> /\ cv.items = <<>>

NothingMapped(r) ==
    /\ GivesNothing(r, "dc.contributor.author[]", "contributors/authors/author")
    /\ GivesNothing(r, "dc.contributor.author", "contributors/authors/author")
    /\ GivesNothing(r, "dc.title[en_US]", "titles/title")
    /\ GivesNothing(r, "dc.title", "titles/title")
    /\ GivesNothing(r, "dc.date.issued[]", "dates/year")
    /\ GivesNothing(r, "dc.date.issued", "dates/year")
    /\ GivesNothing(r, "dc.publisher[en_US]", "publisher")
    /\ GivesNothing(r, "dc.publisher", "publisher")
    /\ GivesNothing(r, "dc.description.abstract[en_US]", "abstract")
    /\ GivesNothing(r, "dc.description.abstract", "abstract")
    /\ GivesNothing(r, "dc.subject[en_US]", "keywords/keyword")
    /\ GivesNothing(r, "dc.subject.other[en_US]", "keywords/keyword")
    /\ GivesNothing(r, "dc.identifier.uri[]", "urls/web-urls/url")
    /\ GivesNothing(r, "dc.identifier.uri", "urls/web-urls/url")
    /\ GivesNothing(r, "dc.language.iso[en_US]", "language")

\* C7: a row in which every mapped column is absent, missing or normalizes
\* to nothing gives a record with exactly the three fixed children, in the
\* order database, source-app, ref-type.
C7_OnlyFixedChildren ==
    (RowStarted /\ NothingMapped(r_row)) => r_record = BareRecord

\* A row with a blank abstract and a date that is no year has been built.
C7_Witness ==
    /\ r_pc = "built"
    /\ DOMAIN r_row = {"dc.description.abstract", "dc.date.issued"}
    /\ r_row["dc.description.abstract"] = StrCell(BlankValue)
    /\ r_row["dc.date.issued"] = StrCell(UndatedValue)
    /\ r_record.kids = FixedChildren

\* ------------------------------------------------------------------- C8
\* C8: no element of a record is empty: every leaf has a non-empty text and
\* every other element has a child; a value that is missing or normalizes to
\* nothing creates no leaf and none of the containers of its path.
C8_NoEmptyElement ==
    RowStarted =>
        /\ NoEmptyBelow(r_record)
        /\ \A path \in XmlPaths :
              (\A i \in 1..Len(csv_to_xml_mapping) :
                  csv_to_xml_mapping[i][2] = path =>
                      GivesNothing(r_row, csv_to_xml_mapping[i][1], path))
              => CountChildren(r_record, path_parts(path)[1]) = 0

\* A row with a date that is no year and a publisher has been built: the
\* record has a publisher and no 'dates' element.
C8_Witness ==
    /\ r_pc = "built"
    /\ DOMAIN r_row = {"dc.date.issued", "dc.publisher"}
    /\ r_row["dc.date.issued"] = StrCell(UndatedValue)
    /\ r_row["dc.publisher"] = StrCell(RichValue)
    /\ CountChildren(r_record, "dates") = 0
    /\ LeavesFrom(r_record.kids, <<"publisher">>) = <<RichValue>>

\* ------------------------------------------------------------------- C9
\* The columns that share a path, in the order of their declaration.
DeclaredPair(first, second, path, parts) ==
    r_pc = "built" =>
        LeavesFrom(r_record.kids, parts)
            = ItemsOf(r_row, first, path) \o ItemsOf(r_row, second, path)

\* C9: the mapping entries are applied in the order of their declaration:
\* under a shared container, every leaf from the column declared first
\* precedes every leaf from the column declared second.
C9_DeclarationOrder ==
    /\ DeclaredPair("dc.contributor.author[]", "dc.contributor.author",
                    "contributors/authors/author", <<"contributors", "authors", "author">>)
    /\ DeclaredPair("dc.title[en_US]", "dc.title", "titles/title", TitleParts)
    /\ DeclaredPair("dc.date.issued[]", "dc.date.issued", "dates/year", YearParts)
    /\ DeclaredPair("dc.publisher[en_US]", "dc.publisher", "publisher", <<"publisher">>)
    /\ DeclaredPair("dc.description.abstract[en_US]", "dc.description.abstract",
                    "abstract", <<"abstract">>)
    /\ DeclaredPair("dc.subject[en_US]", "dc.subject.other[en_US]",
                    "keywords/keyword", KeywordParts)
    /\ DeclaredPair("dc.identifier.uri[]", "dc.identifier.uri",
                    "urls/web-urls/url", <<"urls", "web-urls", "url">>)

\* Both keyword columns hold keywords and the record is built: the two
\* keywords of dc.subject[en_US] come before the two of dc.subject.other.
C9_Witness ==
    /\ r_pc = "built"
    /\ DOMAIN r_row = {"dc.subject[en_US]", "dc.subject.other[en_US]"}
    /\ r_row["dc.subject[en_US]"] = StrCell(RichValue)
    /\ r_row["dc.subject.other[en_US]"] = StrCell(UndatedValue)
    /\ LeavesFrom(r_record.kids, KeywordParts)
          = <<(<<"1", "9", "9", "9">>), <<"k">>, <<"j">>, <<"k">> >>

\* ------------------------------------------------------------------ C10
RunEnded == pc \in {"done", "aborted"}

\* C10: a run is all-or-nothing for the output file: when it has ended,
\* either it completed and the file holds the whole serialized document, or
\* it aborted and the file is untouched.
C10_AllOrNothing ==
    RunEnded =>
        \/ /\ pc = "done"
           /\ outfile = [state |-> "closed", content |-> serialize(root)]
        \/ /\ pc = "aborted"
           /\ outfile = Untouched

====
